---- MODULE Spec2Model ----
(***************************************************************************)
(* Model of pointlander/lemma (main.go): the self-attention versus         *)
(* principal-eigenvector experiment.                                       *)
(*                                                                         *)
(* Numbers.  The program computes in float64; the model computes in exact  *)
(* arithmetic.  A cosine similarity is the real number num / sqrt(rad),    *)
(* kept as the record [num |-> num, rad |-> rad]; rad = 0 stands for a     *)
(* division by zero.  The softmax works in fixed point: math.Exp returns   *)
(* thousandths, rounded, and a softmax weight is a number of thousandths,  *)
(* so the attention output is in thousandths as well.  An eigenvector is   *)
(* kept up to its positive normalisation factor, which cs cancels.         *)
(* Overflow to +Inf and NaN inputs are outside the model.                  *)
(***************************************************************************)
EXTENDS Integers, Sequences, FiniteSets

(* ---------------------------------------------------------------------- *)
(* Program constants                                                      *)
(* ---------------------------------------------------------------------- *)

\* number of synthetic trials: `for i := range 128`
K == 128

\* the total printed by the report line: "%d/129 outside of ..."
Total == 129

\* the threshold .95 as the fraction ThresholdNum / ThresholdDen
ThresholdNum == 19

ThresholdDen == 20

\* const S = 1.0 - 1e-300, which converts to the float64 1.0 in `max * S`
S == 1

\* make([]float64, 4): the number of measures of a record
Dim == 4

(* ---------------------------------------------------------------------- *)
(* Bounds of the model                                                    *)
(* ---------------------------------------------------------------------- *)

\* longest vector handed to cs
MaxLen == 2

\* longest row handed to softmax
MaxRow == 3

\* largest absolute value of a component of such a vector or row
MaxVal == 2

\* the measures of the records of the single-trial model
MeasureValues == {0, 1}

\* the components of the eigenvectors of the single-trial model; an
\* eigenvector is kept up to its positive normalisation factor
Components == {-1, 0, 1}

\* largest number of records of a data set in the single-trial model
MaxSamples == 2

\* number of synthetic trials of the suite whose trials run in any order
OrderTrials == 3

(* ---------------------------------------------------------------------- *)
(* State                                                                  *)
(* ---------------------------------------------------------------------- *)

VARIABLES
  \* main
  pc,        \* position of main: "load", "ref", "loop", "done", "panic"
  i,         \* the loop variable of `for i := range 128`
  count,     \* the failure counter
  iris,      \* the data set of the current trial
  err,       \* whether Load met an error
  ok,        \* what eig.Factorize returned in the last trial
  trials,    \* history: the data sets handed to process, in order
  results,   \* history: how many finished trials returned each similarity
  out,       \* the lines printed so far
  \* cs, called on its own
  csPc, csA, csB, csRet, csRev,
  \* softmax, called on its own
  smPc, smIn, smValues, smMax, smS,
  \* process, one trial step by step
  pPc,           \* position of process
  pIris,         \* its argument
  a, adj, cp, x, \* the matrices of process
  r,             \* the loop variable of the softmax loop
  eig,           \* the factorization: its eigenvalues and eigenvectors
  sigI, sigJ,    \* the slices i and j
  pRet,          \* the value returned
  \* the suite with its trials in any order
  oracle,        \* what process returns for each data set
  pending        \* the trials not run yet: 0 the reference, t the seed t

mainVars == <<pc, i, count, iris, err, ok, trials, results, out>>

csVars == <<csPc, csA, csB, csRet, csRev>>

smVars == <<smPc, smIn, smValues, smMax, smS>>

procVars == <<pPc, pIris, a, adj, cp, x, r, eig, sigI, sigJ, pRet>>

orderVars == <<oracle, pending>>

vars == <<mainVars, csVars, smVars, procVars, orderVars>>

(* ---------------------------------------------------------------------- *)
(* Pure functions of main                                                 *)
(* ---------------------------------------------------------------------- *)

\* dot: x := 0.0; for i, value := range a { x += value * b[i] }
RECURSIVE dotFrom(_, _, _, _)
dotFrom(va, vb, k, acc) ==
  IF k > Len(va) THEN acc ELSE dotFrom(va, vb, k + 1, acc + va[k] * vb[k])

dot(va, vb) == dotFrom(va, vb, 1, 0)

\* the value returned by `return 0`
Zero == [num |-> 0, rad |-> 1]

\* ab / (math.Sqrt(aa) * math.Sqrt(bb)): the product of the two roots is the
\* root of the product
Quotient(ab, aa, bb) == [num |-> ab, rad |-> aa * bb]

\* cs with aa < 0 in the place of aa <= 0
csStrictA(va, vb) ==
  LET ab == dot(va, vb)
      aa == dot(va, va)
      bb == dot(vb, vb)
  IN  IF aa < 0 THEN Zero
      ELSE IF bb <= 0 THEN Zero
      ELSE Quotient(ab, aa, bb)

\* cs without the test of bb
csNoTestB(va, vb) ==
  LET ab == dot(va, vb)
      aa == dot(va, va)
      bb == dot(vb, vb)
  IN  IF aa <= 0 THEN Zero
      ELSE Quotient(ab, aa, bb)

cs(va, vb) ==
  LET ab == dot(va, vb)
      aa == dot(va, va)
      bb == dot(vb, vb)
  IN  IF aa <= 0 THEN Zero
      ELSE IF bb <= 0 THEN Zero
      ELSE Quotient(ab, aa, bb)

\* Below with <= in the place of <
BelowOrEqual(q) ==
  /\ q.rad > 0
  /\ \/ q.num < 0
     \/ ThresholdDen * ThresholdDen * q.num * q.num
          <= ThresholdNum * ThresholdNum * q.rad

\* q < .95 for a similarity q = num / sqrt(rad); no comparison with the
\* result of a division by zero is true
Below(q) ==
  /\ q.rad > 0
  /\ \/ q.num < 0
     \/ ThresholdDen * ThresholdDen * q.num * q.num
          < ThresholdNum * ThresholdNum * q.rad

\* the first loop of softmax: max := 0.0; if v > max { max = v }
RECURSIVE maxFrom(_, _, _)
maxFrom(values, k, max) ==
  IF k > Len(values) THEN max
  ELSE maxFrom(values, k + 1, IF values[k] > max THEN values[k] ELSE max)

\* math.Exp(d) in thousandths, for the d <= 0 that value - s takes
Exp(d) ==
  IF d < 0 - 7 THEN 0
  ELSE <<1, 2, 7, 18, 50, 135, 368, 1000>>[d + 8]

\* sum := 0.0; sum += values[j]
RECURSIVE sumFrom(_, _, _)
sumFrom(values, k, sum) ==
  IF k > Len(values) THEN sum ELSE sumFrom(values, k + 1, sum + values[k])

\* softmax overwrites values: values[j] = exp(value - s), then values[j] / sum
softmax(values) ==
  LET max == maxFrom(values, 1, 0)
      s == max * S
      exps == [j \in 1..Len(values) |-> Exp(values[j] - s)]
      sum == sumFrom(exps, 1, 0)
  IN  [max |-> max, s |-> s,
       values |-> [j \in 1..Len(values) |-> (exps[j] * 1000) \div sum]]

(* ---------------------------------------------------------------------- *)
(* Data sets                                                              *)
(* ---------------------------------------------------------------------- *)

\* Load: the records of iris.data, in file order
Load == [source |-> "iris.data", seed |-> 0]

\* Random drawing from one generator shared by all trials: the data set
\* is the next of the stream, whatever the seed
RandomShared(seed) ==
  [source |-> "random", seed |-> (Len(trials) % OrderTrials) + 1]

\* Random: the records drawn from rand.New(rand.NewSource(seed))
Random(seed) == [source |-> "random", seed |-> seed]

\* the similarities a trial is observed to return: 0, exactly .95, and 1
SimValues ==
  {Zero, [num |-> ThresholdNum, rad |-> ThresholdDen * ThresholdDen],
   [num |-> 1, rad |-> 1]}

NoSim == [num |-> 0, rad |-> 0]

(* ---------------------------------------------------------------------- *)
(* main                                                                   *)
(* ---------------------------------------------------------------------- *)

MainInit ==
  /\ pc = "load"
  /\ i = 0
  /\ count = 0
  /\ iris = [source |-> "none", seed |-> 0]
  /\ err = FALSE
  /\ ok = TRUE
  /\ trials = <<>>
  /\ results = [v \in SimValues |-> 0]
  /\ out = <<>>

CsIdle ==
  /\ csPc = "idle"
  /\ csA = <<>>
  /\ csB = <<>>
  /\ csRet = NoSim
  /\ csRev = NoSim

SmIdle ==
  /\ smPc = "idle"
  /\ smIn = <<>>
  /\ smValues = <<>>
  /\ smMax = 0
  /\ smS = 0

\* iris, count := Load(), 0
LoadOk ==
  /\ pc = "load"
  /\ iris' = Load
  /\ count' = 0
  /\ pc' = "ref"
  /\ UNCHANGED <<i, err, ok, trials, results, out>>

\* one of the panic(err) of Load
LoadPanic ==
  /\ pc = "load"
  /\ err' = TRUE
  /\ pc' = "panic"
  /\ UNCHANGED <<i, count, iris, ok, trials, results, out>>

\* if process(iris) < .95 { count++ }
RefTrial ==
  /\ pc = "ref"
  /\ \E q \in SimValues :
       /\ count' = IF Below(q) THEN count + 1 ELSE count
       /\ results' = [results EXCEPT ![q] = @ + 1]
  /\ ok' = TRUE
  /\ trials' = Append(trials, iris)
  /\ i' = 0
  /\ pc' = "loop"
  /\ UNCHANGED <<iris, err, out>>

\* process: if !ok { panic("Eigenvalue decomposition failed.") }
RefPanic ==
  /\ pc = "ref"
  /\ ok' = FALSE
  /\ trials' = Append(trials, iris)
  /\ pc' = "panic"
  /\ UNCHANGED <<i, count, iris, err, results, out>>

\* the seed with the loop variable itself
seedOfIndex(index) == index

\* int64(i + 1)
seedOf(index) == index + 1

\* SyntheticTrial leaving main at the first similarity below the threshold
SyntheticTrialFailFast ==
  /\ pc = "loop"
  /\ i < K
  /\ iris' = Random(seedOf(i))
  /\ \E q \in SimValues :
       /\ count' = IF Below(q) THEN count + 1 ELSE count
       /\ results' = [results EXCEPT ![q] = @ + 1]
       /\ pc' = IF Below(q) THEN "panic" ELSE pc
  /\ ok' = TRUE
  /\ trials' = Append(trials, iris')
  /\ i' = i + 1
  /\ UNCHANGED <<err, out>>

\* iris := Random(int64(i + 1)); cs := process(iris); if cs < .95 { count++ }
SyntheticTrial ==
  /\ pc = "loop"
  /\ i < K
  /\ iris' = Random(seedOf(i))
  /\ \E q \in SimValues :
       /\ count' = IF Below(q) THEN count + 1 ELSE count
       /\ results' = [results EXCEPT ![q] = @ + 1]
  /\ ok' = TRUE
  /\ trials' = Append(trials, iris')
  /\ i' = i + 1
  /\ UNCHANGED <<pc, err, out>>

\* SyntheticPanic going on to the next trial after a failed factorization
SyntheticFailureIgnored ==
  /\ pc = "loop"
  /\ i < K
  /\ iris' = Random(seedOf(i))
  /\ ok' = FALSE
  /\ trials' = Append(trials, iris')
  /\ i' = i + 1
  /\ UNCHANGED <<pc, count, err, results, out>>

\* process in the loop: if !ok { panic("Eigenvalue decomposition failed.") }
SyntheticPanic ==
  /\ pc = "loop"
  /\ i < K
  /\ iris' = Random(seedOf(i))
  /\ ok' = FALSE
  /\ trials' = Append(trials, iris')
  /\ pc' = "panic"
  /\ UNCHANGED <<i, count, err, results, out>>

\* fmt.Printf("%d/129 outside of cosine similarity .95\n", count)
Report ==
  /\ pc = "loop"
  /\ i >= K
  /\ out' = Append(out, [failCount |-> count, totalCount |-> Total])
  /\ pc' = "done"
  /\ UNCHANGED <<i, count, iris, err, ok, trials, results>>

ProcIdle ==
  /\ pPc = "idle"
  /\ pIris = <<>>
  /\ a = <<>>
  /\ adj = <<>>
  /\ cp = <<>>
  /\ x = <<>>
  /\ r = 0
  /\ eig = [values |-> <<>>, vectors |-> <<>>]
  /\ sigI = <<>>
  /\ sigJ = <<>>
  /\ pRet = NoSim

OrderIdle ==
  /\ oracle = <<>>
  /\ pending = {}

Init == MainInit /\ CsIdle /\ SmIdle /\ ProcIdle /\ OrderIdle

Next ==
  \/ LoadOk /\ UNCHANGED <<csVars, smVars, procVars, orderVars>>
  \/ LoadPanic /\ UNCHANGED <<csVars, smVars, procVars, orderVars>>
  \/ RefTrial /\ UNCHANGED <<csVars, smVars, procVars, orderVars>>
  \/ RefPanic /\ UNCHANGED <<csVars, smVars, procVars, orderVars>>
  \/ SyntheticTrial /\ UNCHANGED <<csVars, smVars, procVars, orderVars>>
  \/ SyntheticPanic /\ UNCHANGED <<csVars, smVars, procVars, orderVars>>
  \/ Report /\ UNCHANGED <<csVars, smVars, procVars, orderVars>>

Spec == Init /\ [][Next]_vars

\* main runs to its end or to a panic without waiting for anything
FairSpec == Spec /\ WF_vars(Next)

(* ---------------------------------------------------------------------- *)
(* cs and softmax called on their own                                     *)
(* ---------------------------------------------------------------------- *)

Vectors(n) == [1..n -> (0 - MaxVal)..MaxVal]

CsInit ==
  /\ csPc = "call"
  /\ \E n \in 0..MaxLen :
       /\ csA \in Vectors(n)
       /\ csB \in Vectors(n)
  /\ csRet = NoSim
  /\ csRev = NoSim

\* cs(a, b), and cs(b, a) on the same two vectors
CsCall ==
  /\ csPc = "call"
  /\ csRet' = cs(csA, csB)
  /\ csRev' = cs(csB, csA)
  /\ csPc' = "ret"
  /\ UNCHANGED <<csA, csB>>

CsNext == CsCall /\ UNCHANGED <<mainVars, smVars, procVars, orderVars>>

InitCs == MainInit /\ CsInit /\ SmIdle /\ ProcIdle /\ OrderIdle

SpecCs == InitCs /\ [][CsNext]_vars

SmInit ==
  /\ smPc = "call"
  /\ \E n \in 1..MaxRow : smIn \in Vectors(n)
  /\ smValues = smIn
  /\ smMax = 0
  /\ smS = 0

\* softmax(values)
softmaxCall ==
  /\ smPc = "call"
  /\ LET ret == softmax(smValues)
     IN  /\ smMax' = ret.max
         /\ smS' = ret.s
         /\ smValues' = ret.values
  /\ smPc' = "ret"
  /\ UNCHANGED smIn

SmNext == softmaxCall /\ UNCHANGED <<mainVars, csVars, procVars, orderVars>>

InitSoftmax == MainInit /\ CsIdle /\ SmInit /\ ProcIdle /\ OrderIdle

SpecSoftmax == InitSoftmax /\ [][SmNext]_vars

(* ---------------------------------------------------------------------- *)
(* process, one trial step by step                                        *)
(* ---------------------------------------------------------------------- *)

\* mat.NewDense(rows, cols, data): a matrix is the sequence of its rows,
\* data is row-major
NewDense(rows, cols, data) ==
  [p \in 1..rows |-> [c \in 1..cols |-> data[(p - 1) * cols + c]]]

\* data = append(data, value.Measures...) over the records
RECURSIVE flatten(_, _, _)
flatten(records, k, data) ==
  IF k > Len(records) THEN data
  ELSE flatten(records, k + 1, data \o records[k].Measures)

\* m.T()
T(m) == [c \in 1..Len(m[1]) |-> [p \in 1..Len(m) |-> m[p][c]]]

\* Dense.Mul of two numeric matrices
Mul(m, n) ==
  LET nT == T(n)
  IN  [p \in 1..Len(m) |-> [c \in 1..Len(nT) |-> dot(m[p], nT[c])]]

\* Dense.SetRow
SetRow(m, p, row) == [m EXCEPT ![p] = row]

\* cmplx.Abs of a real component
Abs(v) == IF v < 0 THEN 0 - v ELSE v

\* the determinant, expanded along the first row
RECURSIVE Det(_)
Det(m) ==
  IF Len(m) = 1 THEN m[1][1]
  ELSE LET n == Len(m)
           minor(c) ==
             [p \in 1..(n - 1) |->
               [q \in 1..(n - 1) |-> m[p + 1][IF q < c THEN q ELSE q + 1]]]
           term(c) == (IF c % 2 = 1 THEN 1 ELSE 0 - 1) * m[1][c] * Det(minor(c))
           sumTo[c \in 0..n] == IF c = 0 THEN 0 ELSE sumTo[c - 1] + term(c)
       IN  sumTo[n]

Trace(m) ==
  LET sumTo[k \in 0..Len(m)] == IF k = 0 THEN 0 ELSE sumTo[k - 1] + m[k][k]
  IN  sumTo[Len(m)]

\* the right eigenpairs <<value, vector>> of m, a vector standing for its
\* direction: m * vector = value * vector, vector # 0, first non-zero
\* component positive
EigenPairs(m) ==
  LET n == Len(m)
  IN  {p \in (0..Trace(m)) \X [1..n -> Components] :
         /\ \E k \in 1..n : /\ p[2][k] > 0
                            /\ \A h \in 1..(k - 1) : p[2][h] = 0
         /\ \A k \in 1..n : dot(m[k], p[2]) = p[1] * p[2][k]}

\* Eigen.Factorize(m, mat.EigenRight) when it succeeds: n eigenvalues, in
\* an order the routine does not specify, and the matrix whose column k is
\* an eigenvector of eigenvalue k, the columns linearly independent
Factorizations(m) ==
  LET n == Len(m)
      pairs == EigenPairs(m)
  IN  {[values |-> [k \in 1..n |-> sys[k][1]],
        vectors |-> [p \in 1..n |-> [k \in 1..n |-> sys[k][2][p]]]] :
          sys \in {f \in [1..n -> pairs] :
                     Det([p \in 1..n |-> [k \in 1..n |-> f[k][2][p]]]) # 0}}

Record == [Measures : [1..Dim -> MeasureValues]]

\* the data sets whose self-similarity matrix has a factorization with
\* integer eigenvalues and eigenvector components in Components
DataSets ==
  {d \in UNION {[1..n -> Record] : n \in 1..MaxSamples} :
     LET m == NewDense(Len(d), Dim, flatten(d, 1, <<>>))
     IN  Factorizations(Mul(m, T(m))) # {}}

ProcInit ==
  /\ pPc = "call"
  /\ pIris \in DataSets
  /\ a = <<>>
  /\ adj = <<>>
  /\ cp = <<>>
  /\ x = <<>>
  /\ r = 0
  /\ eig = [values |-> <<>>, vectors |-> <<>>]
  /\ sigI = <<>>
  /\ sigJ = <<>>
  /\ pRet = NoSim

\* a := NewDense(...); adj.Mul(a, a.T()); cp.Copy(adj)
selfAttention ==
  /\ pPc = "call"
  /\ LET data == flatten(pIris, 1, <<>>)
         m == NewDense(Len(pIris), Dim, data)
     IN  /\ a' = m
         /\ adj' = Mul(m, T(m))
         /\ cp' = Mul(m, T(m))
  /\ r' = 0
  /\ pPc' = "softmax"
  /\ UNCHANGED <<pIris, x, eig, sigI, sigJ, pRet>>

\* softmaxRow with cp and adj one and the same matrix
softmaxRowShared ==
  /\ pPc = "softmax"
  /\ r < Len(pIris)
  /\ LET row == [ii \in 1..Len(pIris) |-> cp[r + 1][ii]]
     IN  /\ cp' = SetRow(cp, r + 1, softmax(row).values)
         /\ adj' = SetRow(cp, r + 1, softmax(row).values)
  /\ r' = r + 1
  /\ UNCHANGED <<pPc, pIris, a, x, eig, sigI, sigJ, pRet>>

\* one turn of `for r := range len(iris)`: row := the copy of row r of cp;
\* softmax(row); cp.SetRow(r, row)
softmaxRow ==
  /\ pPc = "softmax"
  /\ r < Len(pIris)
  /\ LET row == [ii \in 1..Len(pIris) |-> cp[r + 1][ii]]
     IN  cp' = SetRow(cp, r + 1, softmax(row).values)
  /\ r' = r + 1
  /\ UNCHANGED <<pPc, pIris, a, adj, x, eig, sigI, sigJ, pRet>>

\* x.Mul(cp, a)
attend ==
  /\ pPc = "softmax"
  /\ r >= Len(pIris)
  /\ x' = Mul(cp, a)
  /\ pPc' = "eigen"
  /\ UNCHANGED <<pIris, a, adj, cp, r, eig, sigI, sigJ, pRet>>

\* ok := eig.Factorize(adj, mat.EigenRight), ok true
Factorize ==
  /\ pPc = "eigen"
  /\ eig' \in Factorizations(adj)
  /\ pPc' = "vectors"
  /\ UNCHANGED <<pIris, a, adj, cp, x, r, sigI, sigJ, pRet>>

\* ok false: panic("Eigenvalue decomposition failed.")
FactorizePanic ==
  /\ pPc = "eigen"
  /\ pPc' = "panic"
  /\ UNCHANGED <<pIris, a, adj, cp, x, r, eig, sigI, sigJ, pRet>>

\* eig.VectorsTo(eigenvectors); i = append(i, cmplx.Abs(eigenvectors.At(r, 0)));
\* j = append(j, x.At(r, 0))
signals ==
  /\ pPc = "vectors"
  /\ sigI' = [p \in 1..Len(pIris) |-> Abs(eig.vectors[p][1])]
  /\ sigJ' = [p \in 1..Len(pIris) |-> x[p][1]]
  /\ pPc' = "cs"
  /\ UNCHANGED <<pIris, a, adj, cp, x, r, eig, pRet>>

\* return cs(i, j)
return ==
  /\ pPc = "cs"
  /\ pRet' = cs(sigI, sigJ)
  /\ pPc' = "ret"
  /\ UNCHANGED <<pIris, a, adj, cp, x, r, eig, sigI, sigJ>>

process ==
  \/ selfAttention /\ UNCHANGED <<mainVars, csVars, smVars, orderVars>>
  \/ softmaxRow /\ UNCHANGED <<mainVars, csVars, smVars, orderVars>>
  \/ attend /\ UNCHANGED <<mainVars, csVars, smVars, orderVars>>
  \/ Factorize /\ UNCHANGED <<mainVars, csVars, smVars, orderVars>>
  \/ FactorizePanic /\ UNCHANGED <<mainVars, csVars, smVars, orderVars>>
  \/ signals /\ UNCHANGED <<mainVars, csVars, smVars, orderVars>>
  \/ return /\ UNCHANGED <<mainVars, csVars, smVars, orderVars>>

InitProcess == MainInit /\ CsIdle /\ SmIdle /\ ProcInit /\ OrderIdle

SpecProcess == InitProcess /\ [][process]_vars

(* ---------------------------------------------------------------------- *)
(* main with its trials in any order                                      *)
(* ---------------------------------------------------------------------- *)

\* the data set of trial t: Load() for the reference trial 0, and
\* Random(int64(i + 1)) for the synthetic trial i = t - 1
dataSetOf(t) == IF t = 0 THEN Load ELSE Random(seedOf(t - 1))

\* the data sets of the suite: the reference and the seeds 1..OrderTrials
OrderDataSets ==
  {[source |-> "iris.data", seed |-> 0]} \cup
    {[source |-> "random", seed |-> sd] : sd \in 1..OrderTrials}

\* process is a function of its argument: the same data set gives the
\* same similarity in every trial of every run
OrderInit ==
  /\ pc = "loop"
  /\ i = 0
  /\ count = 0
  /\ iris = [source |-> "none", seed |-> 0]
  /\ err = FALSE
  /\ ok = TRUE
  /\ trials = <<>>
  /\ results = [v \in SimValues |-> 0]
  /\ out = <<>>
  /\ oracle \in [OrderDataSets -> SimValues]
  /\ pending = 0..OrderTrials

\* one trial of main, any trial that has not run yet:
\* cs := process(iris); if cs < .95 { count++ }
TrialInAnyOrder ==
  /\ pc = "loop"
  /\ \E t \in pending :
       /\ iris' = dataSetOf(t)
       /\ pending' = pending \ {t}
  /\ LET q == oracle[iris']
     IN  /\ count' = IF Below(q) THEN count + 1 ELSE count
         /\ results' = [results EXCEPT ![q] = @ + 1]
  /\ trials' = Append(trials, iris')
  /\ i' = i + 1
  /\ UNCHANGED <<pc, err, ok, out, oracle>>

\* fmt.Printf once every trial has run
ReportInAnyOrder ==
  /\ pc = "loop"
  /\ pending = {}
  /\ out' = Append(out, [failCount |-> count, totalCount |-> Total])
  /\ pc' = "done"
  /\ UNCHANGED <<i, count, iris, err, ok, trials, results, orderVars>>

InitOrder == OrderInit /\ CsIdle /\ SmIdle /\ ProcIdle

NextOrder ==
  \/ TrialInAnyOrder /\ UNCHANGED <<csVars, smVars, procVars>>
  \/ ReportInAnyOrder /\ UNCHANGED <<csVars, smVars, procVars>>

SpecOrder == InitOrder /\ [][NextOrder]_vars

(* ---------------------------------------------------------------------- *)
(* Properties                                                             *)
(* ---------------------------------------------------------------------- *)

\* the number of finished trials whose similarity is in the set sims
RECURSIVE Tally(_)
Tally(sims) ==
  IF sims = {} THEN 0
  ELSE LET q == CHOOSE v \in sims : TRUE
       IN  results[q] + Tally(sims \ {q})

Finished == Tally(SimValues)

\* num / sqrt(rad) < 19 / 20
StrictlyBelow95(q) ==
  q.num < 0 \/ 400 * q.num * q.num < 361 * q.rad

\* C1: failCount is the number of finished trials whose cosine similarity
\* is strictly below 0.95; it is never negative and never above the number
\* of trials finished so far; the report line carries it with the total 129.
C1_FailCountIsTheNumberBelow ==
  /\ count = Tally({q \in SimValues : StrictlyBelow95(q)})
  /\ 0 <= count
  /\ count <= Finished
  /\ pc = "done" =>
       /\ Finished = 129
       /\ out = <<[failCount |-> count, totalCount |-> 129]>>

C1_Witness ==
  /\ pc = "done"
  /\ results[[num |-> 19, rad |-> 400]] > 0
  /\ results[Zero] > 0
  /\ count = results[Zero]

\* C2: the trials handed to process are the reference data set first and
\* then the synthetic data sets of seeds 1, 2, ..., 128 in this order, each
\* once; a trial starts only when every earlier trial has finished.
C2_ReferenceThenSeedsInOrder ==
  /\ Len(trials) <= 129
  /\ \A k \in 1..Len(trials) :
       trials[k] = IF k = 1 THEN [source |-> "iris.data", seed |-> 0]
                            ELSE [source |-> "random", seed |-> k - 1]
  /\ Len(trials) <= Finished + 1
  /\ Len(trials) = Finished + 1 => pc = "panic"
  /\ pc = "done" => Len(trials) = 129

C2_Witness ==
  /\ pc = "done"
  /\ trials[1].source = "iris.data"
  /\ trials[2].seed = 1
  /\ trials[129].seed = 128

\* C4: once Load has failed or a factorization has reported failure, main
\* is aborted: nothing has been printed, the failed trial is the last one
\* started, and no variable of main changes any more.
C4_FailureAborts ==
  /\ []((err \/ ~ok) =>
         /\ pc = "panic"
         /\ out = <<>>
         /\ Len(trials) = Finished + (IF err THEN 0 ELSE 1))
  /\ [][(err \/ ~ok) => UNCHANGED mainVars]_vars

C4_Witness ==
  /\ pc = "panic"
  /\ ~ok
  /\ count > 0
  /\ Len(trials) > 2
  /\ Len(trials) < 129

\* C5: main ends in a panic only after a load or factorization failure;
\* otherwise it reaches its end, where all 129 trials have finished and the
\* report line has been printed once, and nothing is printed before that.
C5_CompletesAndReportsOnce ==
  /\ [](pc = "panic" => (err \/ ~ok))
  /\ [](pc = "done" => Len(out) = 1 /\ Finished = 129)
  /\ [](pc # "done" => out = <<>>)
  /\ <>(pc = "panic" \/ pc = "done")

C5_Witness ==
  /\ pc = "done"
  /\ Len(out) = 1
  /\ results[Zero] = 129
  /\ count = 129

\* the sum of va[k] * vb[k]
SumProducts(va, vb) ==
  LET sumTo[k \in 0..Len(va)] ==
        IF k = 0 THEN 0 ELSE sumTo[k - 1] + va[k] * vb[k]
  IN  sumTo[Len(va)]

\* C6: cs returns 0 when either vector has zero squared norm, and
\* dot(a,b) / (norm(a) * norm(b)) otherwise; it never divides by zero.
C6_DegenerateIsZero ==
  csPc = "ret" =>
    /\ csRet.rad > 0
    /\ csRet =
         IF SumProducts(csA, csA) = 0 \/ SumProducts(csB, csB) = 0
         THEN [num |-> 0, rad |-> 1]
         ELSE [num |-> SumProducts(csA, csB),
               rad |-> SumProducts(csA, csA) * SumProducts(csB, csB)]

C6_Witness ==
  /\ csPc = "ret"
  /\ Len(csA) = 2
  /\ SumProducts(csA, csA) = 0
  /\ SumProducts(csB, csB) > 0
  /\ csRet = [num |-> 0, rad |-> 1]

\* C9: cs(a, b) and cs(b, a) are the same value, zero vectors included.
C9_Symmetric ==
  csPc = "ret" => csRet = csRev

C9_Witness ==
  /\ csPc = "ret"
  /\ csA # csB
  /\ csRet.num < 0
  /\ csRet = csRev

C3_SignalIsDominantEigenvector ==
  pPc \in {"cs", "ret"} =>
    \E k \in 1..Len(eig.values) :
      /\ \A h \in 1..Len(eig.values) : Abs(eig.values[h]) <= Abs(eig.values[k])
      /\ sigI = [p \in 1..Len(pIris) |-> Abs(eig.vectors[p][k])]

\* the product V * V^T of the records' measures
GramOf(d) ==
  [p \in 1..Len(d) |->
    [q \in 1..Len(d) |-> SumProducts(d[p].Measures, d[q].Measures)]]

\* C10: the softmax loop leaves the self-similarity matrix and the input
\* matrix alone: from the first row on, and when the factorization and the
\* product X = A * V read them, adj is V * V^T and a is V.
C10_SoftmaxOnlyOnTheCopy ==
  pPc # "call" =>
    /\ Len(adj) = Len(pIris)
    /\ \A p \in 1..Len(pIris) :
         /\ Len(adj[p]) = Len(pIris)
         /\ \A q \in 1..Len(pIris) :
              adj[p][q] = GramOf(pIris)[p][q]
    /\ a = [p \in 1..Len(pIris) |-> pIris[p].Measures]

C10_Witness ==
  /\ pPc = "eigen"
  /\ Len(pIris) = 2
  /\ r = 2
  /\ adj[2][1] > 0
  /\ adj[2][2] > adj[2][1]
  /\ cp[2][1] > 0
  /\ cp[2][2] > cp[2][1]
  /\ cp[2][2] < 1000

====
